---- MODULE Spec2Model ----
(***************************************************************************)
(* The iterative drafting pipeline of the novel engine: the record store   *)
(* (scenes, drafts, iterations, tasks, check runs), the RQ job queue, the  *)
(* worker processes running process_task, and the client calls             *)
(* (start_iteration, the HTTP endpoints run_pipeline, create_draft,        *)
(* delete_scene, delete_project).  Every db.commit() of the source is a    *)
(* step boundary: other processes may run between two commits.             *)
(***************************************************************************)
EXTENDS Integers, Sequences, FiniteSets, TLC

\* ------------------------------------------------------------------ bounds
\* largest max_attempts a caller passes (the smallest is -MaxNegAttempts)
MaxAttemptsHi == 1
MaxNegAttempts == 1
\* number of start_iteration calls, duplicate deliveries, deletions, draft
\* endpoint calls and run_pipeline calls in one behaviour
MaxStarts == 2
MaxRedeliver == 1
MaxDeletes == 1
MaxEndpointDrafts == 1
MaxRunPipeline == 1
\* the largest task id advance_state_machine creates under faults, and when
\* iterations run side by side
MaxTasks == 7
MaxDraftTasks == 4

Workers == {"w1", "w2"}
Clients == {"c1", "c2"}
SceneIds == {1, 2}
\* scene ids a request may name: the existing ones and one that never existed
RequestSceneIds == SceneIds \cup {3}
MaxAttemptsValues == (0 - MaxNegAttempts)..MaxAttemptsHi
\* the largest max_attempts of the steady flow
SteadyMaxAttempts == 2
SteadyAttemptsValues == (0 - MaxNegAttempts)..SteadyMaxAttempts

\* ------------------------------------------------------------- task kinds
PLAN_SCENE == "PLAN_SCENE"
DRAFT_SCENE == "DRAFT_SCENE"
EXTRACT_FACTS == "EXTRACT_FACTS"
RUN_CHECKS == "RUN_CHECKS"
REVISE == "REVISE"
COMMIT == "COMMIT"
TaskType == {PLAN_SCENE, DRAFT_SCENE, EXTRACT_FACTS, RUN_CHECKS, REVISE, COMMIT}

\* a table that skips fact extraction after the first draft
NEXT_TASK_DraftToChecks ==
  (PLAN_SCENE :> DRAFT_SCENE) @@ (DRAFT_SCENE :> RUN_CHECKS) @@
  (EXTRACT_FACTS :> RUN_CHECKS) @@ (REVISE :> EXTRACT_FACTS)

\* the successor table with REVISE going straight back to the checks
NEXT_TASK_ReviseToChecks ==
  (PLAN_SCENE :> DRAFT_SCENE) @@ (DRAFT_SCENE :> EXTRACT_FACTS) @@
  (EXTRACT_FACTS :> RUN_CHECKS) @@ (REVISE :> RUN_CHECKS)

\* NEXT_TASK: the static successor table; a kind outside its domain has none
NEXT_TASK ==
  (PLAN_SCENE :> DRAFT_SCENE) @@ (DRAFT_SCENE :> EXTRACT_FACTS) @@
  (EXTRACT_FACTS :> RUN_CHECKS) @@ (REVISE :> EXTRACT_FACTS)

\* a value of the task_type column that is not a member of TaskType
UnknownKind == "UNKNOWN"

\* a handler table with an entry for every value of the column
TASK_HANDLERS_Any == TaskType \cup {UnknownKind}

\* the kinds that have a handler
TASK_HANDLERS == TaskType

\* the default of input_data.get("max_attempts", 3)
DefaultMaxAttempts == 3

\* ------------------------------------------------------------ dictionaries
\* JSON objects are functions from keys to values; {} is the empty function
EmptyDict == [k \in {} |-> 0]
Get(d, k, default) == IF k \in DOMAIN d THEN d[k] ELSE default
\* the value None of a missing id
None == 0

\* ------------------------------------------------------------------- queue
\* the RQ queue as a bag of task ids
Enqueue(q, t) == IF t \in DOMAIN q THEN [q EXCEPT ![t] = @ + 1] ELSE q @@ (t :> 1)
Dequeue(q, t) ==
  IF q[t] > 1 THEN [q EXCEPT ![t] = @ - 1]
  ELSE [x \in DOMAIN q \ {t} |-> q[x]]

VARIABLES
  scenes,      \* ids of the scene rows
  drafts,      \* draft id -> [scene_id, version, text]
  iterations,  \* iteration id -> [scene_id, iteration_no, status]
  tasks,       \* task id -> [iteration_id, task_type, status, input_jsonb, output_jsonb, attempts]
  check_runs,  \* check run id -> [iteration_id, draft_id, check_type, passed]
  nextId,      \* the serial primary keys: [draft, iteration, task, check_run]
  queue,       \* bag of enqueued task ids
  enqueued,    \* task id -> number of queue.enqueue calls made for it
  delivered,   \* task ids the queue has handed to a worker at least once
  worker,      \* worker -> the process_task call it is executing
  client,      \* client -> the API call it is executing and the last reply
  budget       \* how many more of each bounded environment event may happen

vars == <<scenes, drafts, iterations, tasks, check_runs, nextId, queue,
          enqueued, delivered, worker, client, budget>>

store == <<scenes, drafts, iterations, tasks, check_runs, nextId>>

\* ----------------------------------------------------------------- queries
\* func.max(Draft.version) filtered by scene; None when there is no row
MaxDraftVersion(s) ==
  LET V == {drafts[d].version : d \in {x \in DOMAIN drafts : drafts[x].scene_id = s}}
  IN IF V = {} THEN None ELSE CHOOSE v \in V : \A u \in V : u <= v

\* func.max(Iteration.iteration_no) filtered by scene
MaxIterationNo(s) ==
  LET V == {iterations[i].iteration_no :
              i \in {x \in DOMAIN iterations : iterations[x].scene_id = s}}
  IN IF V = {} THEN None ELSE CHOOSE v \in V : \A u \in V : u <= v

\* get_scene finding a row for every id
get_scene_always(s) == TRUE

\* crud.get_scene / crud.get_draft find a row
get_scene(s) == s \in scenes
get_draft(d) == d \in DOMAIN drafts

\* (max or 0) + 1
NextNumber(max) == (IF max = None THEN 0 ELSE max) + 1

\* the draft table without its unique constraint
NoUniqueDraftVersion(s, v) == TRUE

\* uq_draft_scene_version: the insert of (scene_id, version) is accepted
UniqueDraftVersion(s, v) ==
  \A d \in DOMAIN drafts : ~(drafts[d].scene_id = s /\ drafts[d].version = v)

IdleWorker == [pc |-> "idle", task |-> None, prior |-> "none", max_version |-> None,
               output |-> EmptyDict, next |-> None]
NoReply == [op |-> "none", code |-> "none", scene |-> None, draft |-> None,
            iteration |-> None]
IdleClient(reply) == [pc |-> "idle", scene |-> None, max_attempts |-> 0, max_no |-> None,
                      iteration |-> None, task |-> None, reply |-> reply]
\* the last call a client made (operation, scene_id, draft_id) and its answer
Reply(op, code, s, d, i) ==
  [op |-> op, code |-> code, scene |-> s, draft |-> d, iteration |-> i]

\* the state after deployment: the scenes exist, no pipeline record does, the
\* queue is empty, every process is idle; b is what the environment may do
InitWith(b) ==
  /\ scenes = SceneIds
  /\ drafts = EmptyDict
  /\ iterations = EmptyDict
  /\ tasks = EmptyDict
  /\ check_runs = EmptyDict
  /\ nextId = [draft |-> 1, iteration |-> 1, task |-> 1, check_run |-> 1]
  /\ queue = EmptyDict
  /\ enqueued = EmptyDict
  /\ delivered = {}
  /\ worker = [w \in Workers |-> IdleWorker]
  /\ client = [c \in Clients |-> IdleClient(NoReply)]
  /\ budget = b

Budget(st, re, de, ed, rp, lt) ==
  [starts |-> st, redeliver |-> re, deletes |-> de, endpoint_drafts |-> ed,
   run_pipeline |-> rp, last_task |-> lt]

\* --------------------------------------------------------- start_iteration
SetClient(c, rec) == client' = [client EXCEPT ![c] = rec]
Busy(c, pc) == [client[c] EXCEPT !.pc = pc]

\* crud.create_task: a pending row with the given input and the column defaults
NewTask(i, kind, input) ==
  [iteration_id |-> i, task_type |-> kind, status |-> "pending",
   input_jsonb |-> input, output_jsonb |-> EmptyDict, attempts |-> 0]

\* the input of the first task
FirstInput(s, m) ==
  ("scene_id" :> s) @@ ("max_attempts" :> m) @@ ("current_attempt" :> 0)

\* pipeline.start_iteration called with (scene_id, max_attempts): the scene
\* lookup, and create_iteration's read of the largest iteration_no
StartBegin(c, s, m) ==
  /\ client[c].pc = "idle"
  /\ budget.starts > 0
  /\ budget' = [budget EXCEPT !.starts = @ - 1]
  /\ IF ~get_scene(s)
       THEN SetClient(c, IdleClient(Reply("start_iteration", "not_found", s, None, None)))
       ELSE SetClient(c, [Busy(c, "insert_iteration") EXCEPT
                            !.scene = s, !.max_attempts = m,
                            !.max_no = MaxIterationNo(s)])
  /\ UNCHANGED <<store, queue, enqueued, delivered, worker>>

\* create_iteration's insert and commit (the scene row is a foreign key)
StartInsertIteration(c) ==
  /\ client[c].pc = "insert_iteration"
  /\ IF client[c].scene \notin scenes
       THEN /\ SetClient(c, IdleClient(Reply("start_iteration", "error", client[c].scene, None, None)))
            /\ UNCHANGED <<iterations, nextId>>
       ELSE /\ iterations' = iterations @@ (nextId.iteration :>
                 [scene_id |-> client[c].scene,
                  iteration_no |-> NextNumber(client[c].max_no),
                  status |-> "pending"])
            /\ nextId' = [nextId EXCEPT !.iteration = @ + 1]
            /\ SetClient(c, [Busy(c, "create_task") EXCEPT !.iteration = nextId.iteration])
  /\ UNCHANGED <<scenes, drafts, tasks, check_runs, queue, enqueued, delivered, worker, budget>>

\* crud.create_task for the PLAN_SCENE task (the iteration row is a foreign key)
StartCreateTask(c) ==
  /\ client[c].pc = "create_task"
  /\ IF client[c].iteration \notin DOMAIN iterations
       THEN /\ SetClient(c, IdleClient(Reply("start_iteration", "error", client[c].scene, None, None)))
            /\ UNCHANGED <<tasks, nextId>>
       ELSE /\ tasks' = tasks @@ (nextId.task :>
                 NewTask(client[c].iteration, PLAN_SCENE,
                         FirstInput(client[c].scene, client[c].max_attempts)))
            /\ nextId' = [nextId EXCEPT !.task = @ + 1]
            /\ SetClient(c, [Busy(c, "set_running") EXCEPT !.task = nextId.task])
  /\ UNCHANGED <<scenes, drafts, iterations, check_runs, queue, enqueued, delivered, worker, budget>>

\* crud.update_iteration_status: sets the status of the row if it is there
update_iteration_status(i, status) ==
  IF i \in DOMAIN iterations
    THEN [iterations EXCEPT ![i].status = status]
    ELSE iterations

StartSetRunning(c) ==
  /\ client[c].pc = "set_running"
  /\ iterations' = update_iteration_status(client[c].iteration, "running")
  /\ SetClient(c, Busy(c, "enqueue"))
  /\ UNCHANGED <<scenes, drafts, tasks, check_runs, nextId, queue, enqueued, delivered, worker, budget>>

\* queue.enqueue of the first task, and the return of the iteration
StartEnqueue(c) ==
  /\ client[c].pc = "enqueue"
  /\ queue' = Enqueue(queue, client[c].task)
  /\ enqueued' = Enqueue(enqueued, client[c].task)
  /\ SetClient(c, IdleClient(Reply("start_iteration", "ok", client[c].scene, None, client[c].iteration)))
  /\ UNCHANGED <<store, delivered, worker, budget>>

\* a record write or the enqueue call raises, or the process dies: start_iteration
\* has no handler and no transaction around its steps, so what was committed stays
StartFails(c) ==
  /\ client[c].pc \in {"insert_iteration", "create_task", "set_running", "enqueue"}
  /\ SetClient(c, IdleClient(Reply("start_iteration", "error", client[c].scene, None, None)))
  /\ UNCHANGED <<store, queue, enqueued, delivered, worker, budget>>

\* ------------------------------------------------------------ run_pipeline
\* run_pipeline_code without the test that the draft belongs to the scene
run_pipeline_code_any_draft(s, d) ==
  IF s \notin scenes THEN "not_found"
  ELSE IF d # None /\ d \notin DOMAIN drafts THEN "not_found"
  ELSE "error"

\* what POST /pipeline/scenes/{scene_id}/run answers for (scene_id, draft_id):
\* the call of start_iteration passes draft_id, a keyword start_iteration does
\* not have, so the validated request ends in a TypeError, which the
\* except ValueError clause does not catch
run_pipeline_code(s, d) ==
  IF ~get_scene(s) THEN "not_found"
  ELSE IF d # None /\ ~get_draft(d) THEN "not_found"
  ELSE IF d # None /\ drafts[d].scene_id # s THEN "invalid_argument"
  ELSE "error"

RunPipeline(c, s, d) ==
  /\ client[c].pc = "idle"
  /\ budget.run_pipeline > 0
  /\ budget' = [budget EXCEPT !.run_pipeline = @ - 1]
  /\ SetClient(c, IdleClient(Reply("run_pipeline", run_pipeline_code(s, d), s, d, None)))
  /\ UNCHANGED <<store, queue, enqueued, delivered, worker>>

\* ------------------------------------------------- POST /scenes/{id}/drafts
\* the endpoint's scene lookup and create_draft's read of the largest version
DraftBegin(c, s) ==
  /\ client[c].pc = "idle"
  /\ budget.endpoint_drafts > 0
  /\ budget' = [budget EXCEPT !.endpoint_drafts = @ - 1]
  /\ IF ~get_scene(s)
       THEN SetClient(c, IdleClient(Reply("create_draft", "not_found", s, None, None)))
       ELSE SetClient(c, [Busy(c, "insert_draft") EXCEPT
                            !.scene = s, !.max_no = MaxDraftVersion(s)])
  /\ UNCHANGED <<store, queue, enqueued, delivered, worker>>

\* crud.create_draft's insert and commit: rejected when the scene is gone or
\* the (scene_id, version) pair is taken
CanInsertDraft(s, v) == s \in scenes /\ UniqueDraftVersion(s, v)

InsertedDraft(s, v, text) ==
  drafts @@ (nextId.draft :> [scene_id |-> s, version |-> v, text |-> text])

DraftInsert(c) ==
  /\ client[c].pc = "insert_draft"
  /\ IF CanInsertDraft(client[c].scene, NextNumber(client[c].max_no))
       THEN /\ drafts' = InsertedDraft(client[c].scene, NextNumber(client[c].max_no), "client")
            /\ nextId' = [nextId EXCEPT !.draft = @ + 1]
            /\ SetClient(c, IdleClient(Reply("create_draft", "ok", client[c].scene, None, None)))
       ELSE /\ SetClient(c, IdleClient(Reply("create_draft", "error", client[c].scene, None, None)))
            /\ UNCHANGED <<drafts, nextId>>
  /\ UNCHANGED <<scenes, iterations, tasks, check_runs, queue, enqueued, delivered, worker, budget>>

\* ----------------------------------------------------------------- deletes
\* the rows left after the scenes S are deleted: drafts and iterations go with
\* their scene, tasks with their iteration, check runs with either
Restrict(f, D) == [x \in D |-> f[x]]

DeleteCascade(S) ==
  LET keptDrafts == {d \in DOMAIN drafts : drafts[d].scene_id \notin S}
      keptIters == {i \in DOMAIN iterations : iterations[i].scene_id \notin S}
  IN /\ scenes' = scenes \ S
     /\ drafts' = Restrict(drafts, keptDrafts)
     /\ iterations' = Restrict(iterations, keptIters)
     /\ tasks' = Restrict(tasks, {t \in DOMAIN tasks : tasks[t].iteration_id \in keptIters})
     /\ check_runs' = Restrict(check_runs,
          {r \in DOMAIN check_runs :
             check_runs[r].iteration_id \in keptIters /\ check_runs[r].draft_id \in keptDrafts})

\* DELETE /scenes/{scene_id}
DeleteScene(s) ==
  /\ s \in scenes
  /\ budget.deletes > 0
  /\ budget' = [budget EXCEPT !.deletes = @ - 1]
  /\ DeleteCascade({s})
  /\ UNCHANGED <<nextId, queue, enqueued, delivered, worker, client>>

\* DELETE /projects/{project_id}: every scene belongs to the one project
DeleteProject ==
  /\ scenes # {}
  /\ budget.deletes > 0
  /\ budget' = [budget EXCEPT !.deletes = @ - 1]
  /\ DeleteCascade(scenes)
  /\ UNCHANGED <<nextId, queue, enqueued, delivered, worker, client>>

\* ------------------------------------------------------------ process_task
SetWorker(w, rec) == worker' = [worker EXCEPT ![w] = rec]
TaskOf(w) == worker[w].task
InputOf(w) == tasks[TaskOf(w)].input_jsonb

\* a missing task is worked on all the same
TaskMissingIgnored(w, t) ==
  /\ UNCHANGED tasks
  /\ SetWorker(w, [IdleWorker EXCEPT !.pc = "handler", !.task = t])

\* get_task finds no row: process_task raises "not found" and returns
TaskMissing(w, t) == UNCHANGED <<tasks, worker>>

\* the queue hands a job to an idle worker; process_task loads the task and,
\* if it is there, locks it: status "running", attempts + 1, commit.  The
\* status the row had is kept in prior (the code overwrites it unread).
Claim(w, t) ==
  /\ worker[w].pc = "idle"
  /\ t \in DOMAIN queue
  /\ queue' = Dequeue(queue, t)
  /\ delivered' = delivered \cup {t}
  /\ IF t \notin DOMAIN tasks
       THEN TaskMissing(w, t)
       ELSE /\ tasks' = [tasks EXCEPT ![t].status = "running", ![t].attempts = @ + 1]
            /\ SetWorker(w, [IdleWorker EXCEPT
                 !.pc = IF tasks[t].task_type \in TASK_HANDLERS THEN "handler" ELSE "idle",
                 !.task = IF tasks[t].task_type \in TASK_HANDLERS THEN t ELSE None,
                 !.prior = IF tasks[t].task_type \in TASK_HANDLERS
                             THEN tasks[t].status ELSE "none"])
  /\ UNCHANGED <<scenes, drafts, iterations, check_runs, nextId, enqueued, client, budget>>

\* the task table holds a row whose kind this code does not know (task_type is
\* an unconstrained string column), and its id is in the queue
ForeignTask(i) ==
  /\ i \in DOMAIN iterations
  /\ \A t \in DOMAIN tasks : tasks[t].task_type # UnknownKind
  /\ tasks' = tasks @@ (nextId.task :>
       NewTask(i, UnknownKind, FirstInput(iterations[i].scene_id, DefaultMaxAttempts)))
  /\ nextId' = [nextId EXCEPT !.task = @ + 1]
  /\ queue' = Enqueue(queue, nextId.task)
  /\ enqueued' = Enqueue(enqueued, nextId.task)
  /\ UNCHANGED <<scenes, drafts, iterations, check_runs, delivered, worker, client, budget>>

\* the queue delivers a job it has already delivered once more (at-least-once)
Redeliver(t) ==
  /\ t \in delivered
  /\ budget.redeliver > 0
  /\ budget' = [budget EXCEPT !.redeliver = @ - 1]
  /\ queue' = Enqueue(queue, t)
  /\ UNCHANGED <<store, enqueued, delivered, worker, client>>

\* the rows a handler looks up before it does anything: it raises without them
HandlerReady(kind, input) ==
  CASE kind = PLAN_SCENE -> get_scene(Get(input, "scene_id", None))
    [] kind = DRAFT_SCENE -> get_scene(Get(input, "scene_id", None))
    [] kind = EXTRACT_FACTS -> get_draft(Get(input, "draft_id", None))
    [] kind = RUN_CHECKS -> /\ get_draft(Get(input, "draft_id", None))
                            /\ get_scene(Get(input, "scene_id", None))
    [] kind = REVISE -> get_draft(Get(input, "draft_id", None))
    [] kind = COMMIT -> TRUE

handle_plan_scene(input) ==
  ("scene_id" :> Get(input, "scene_id", None)) @@ ("plan" :> "plan")

handle_draft_scene(input, d, v) ==
  ("scene_id" :> Get(input, "scene_id", None)) @@ ("draft_id" :> d) @@ ("version" :> v)

handle_extract_facts(input) ==
  ("draft_id" :> Get(input, "draft_id", None)) @@ ("facts" :> "facts") @@
  ("summary" :> "summary")

\* results: the passed flag of each check run by run_all_checks, in order
CheckTypes == <<"continuity", "style">>
\* all_passed is set as soon as one check passes
handle_run_checks_any_passed(input, results) ==
  ("draft_id" :> Get(input, "draft_id", None)) @@
  ("all_passed" :> (\E k \in DOMAIN results : results[k])) @@
  ("findings" :> "findings") @@ ("check_count" :> Len(results))

handle_run_checks(input, results) ==
  ("draft_id" :> Get(input, "draft_id", None)) @@
  ("all_passed" :> (\A k \in DOMAIN results : results[k])) @@
  ("findings" :> "findings") @@ ("check_count" :> Len(results))

\* REVISE reporting the draft it revised instead of the draft it created
handle_revise_old_draft(input, d, v) ==
  ("scene_id" :> Get(input, "scene_id", None)) @@
  ("draft_id" :> Get(input, "draft_id", None)) @@
  ("version" :> v) @@ ("previous_draft_id" :> Get(input, "draft_id", None))

handle_revise(input, d, v) ==
  ("scene_id" :> Get(input, "scene_id", None)) @@ ("draft_id" :> d) @@
  ("version" :> v) @@ ("previous_draft_id" :> Get(input, "draft_id", None))

handle_commit(input) ==
  ("scene_id" :> Get(input, "scene_id", None)) @@
  ("draft_id" :> Get(input, "draft_id", None)) @@
  ("committed" :> TRUE) @@ ("message" :> "message")

\* the except branch without the write of the error output
FailTaskKeepsOutput(w) ==
  /\ tasks' = IF TaskOf(w) \in DOMAIN tasks
                THEN [tasks EXCEPT ![TaskOf(w)].status = "failed"]
                ELSE tasks
  /\ SetWorker(w, IdleWorker)

\* the except branch of process_task: status "failed", output {error}, commit,
\* re-raise.  With the task row gone the commit fails and nothing is written.
FailTask(w) ==
  /\ tasks' = IF TaskOf(w) \in DOMAIN tasks
                THEN [tasks EXCEPT ![TaskOf(w)].status = "failed",
                                   ![TaskOf(w)].output_jsonb = ("error" :> "error")]
                ELSE tasks
  /\ SetWorker(w, IdleWorker)

\* the handler call.  A handler that commits nothing of its own (the plan,
\* extract and commit handlers: fact rows are not modelled) runs in one step
\* with the commit of its output; the check handler commits its check runs;
\* a draft handler runs up to create_draft's read of the largest version.
RunHandler(w) ==
  /\ worker[w].pc = "handler"
  /\ TaskOf(w) \in DOMAIN tasks
  /\ LET kind == tasks[TaskOf(w)].task_type
         input == InputOf(w)
     IN IF ~HandlerReady(kind, input)
          THEN FailTask(w) /\ UNCHANGED <<check_runs, nextId>>
          ELSE CASE kind \in {DRAFT_SCENE, REVISE} ->
                      /\ SetWorker(w, [worker[w] EXCEPT !.pc = "insert",
                           !.max_version = MaxDraftVersion(Get(input, "scene_id", None))])
                      /\ UNCHANGED <<tasks, check_runs, nextId>>
                 [] kind = RUN_CHECKS ->
                      \E results \in [DOMAIN CheckTypes -> BOOLEAN] :
                        /\ check_runs' = check_runs @@
                             [r \in {nextId.check_run + k - 1 : k \in DOMAIN CheckTypes} |->
                                [iteration_id |-> tasks[TaskOf(w)].iteration_id,
                                 draft_id |-> Get(input, "draft_id", None),
                                 check_type |-> CheckTypes[r - nextId.check_run + 1],
                                 passed |-> results[r - nextId.check_run + 1]]]
                        /\ nextId' = [nextId EXCEPT !.check_run = @ + Len(CheckTypes)]
                        /\ SetWorker(w, [worker[w] EXCEPT !.pc = "persist",
                             !.output = handle_run_checks(input, results)])
                        /\ UNCHANGED tasks
                 [] OTHER ->
                      /\ tasks' = [tasks EXCEPT ![TaskOf(w)].status = "completed",
                           ![TaskOf(w)].output_jsonb =
                              CASE kind = PLAN_SCENE -> handle_plan_scene(input)
                                [] kind = EXTRACT_FACTS -> handle_extract_facts(input)
                                [] kind = COMMIT -> handle_commit(input)]
                      /\ SetWorker(w, [worker[w] EXCEPT !.pc = "advance"])
                      /\ UNCHANGED <<check_runs, nextId>>
  /\ UNCHANGED <<scenes, drafts, iterations, queue, enqueued, delivered, client, budget>>

\* create_draft's insert and commit inside handle_draft_scene / handle_revise
InsertDraft(w) ==
  /\ worker[w].pc = "insert"
  /\ TaskOf(w) \in DOMAIN tasks
  /\ LET kind == tasks[TaskOf(w)].task_type
         input == InputOf(w)
         s == Get(input, "scene_id", None)
         v == NextNumber(worker[w].max_version)
     IN IF CanInsertDraft(s, v)
          THEN /\ drafts' = InsertedDraft(s, v, IF kind = REVISE THEN "revised" ELSE "generated")
               /\ nextId' = [nextId EXCEPT !.draft = @ + 1]
               /\ SetWorker(w, [worker[w] EXCEPT !.pc = "persist",
                    !.output = IF kind = REVISE
                                 THEN handle_revise(input, nextId.draft, v)
                                 ELSE handle_draft_scene(input, nextId.draft, v)])
               /\ UNCHANGED tasks
          ELSE FailTask(w) /\ UNCHANGED <<drafts, nextId>>
  /\ UNCHANGED <<scenes, iterations, check_runs, queue, enqueued, delivered, client, budget>>

\* the commit of the output without the status "completed"
PersistOutputOnly(w) ==
  /\ worker[w].pc = "persist"
  /\ TaskOf(w) \in DOMAIN tasks
  /\ tasks' = [tasks EXCEPT ![TaskOf(w)].output_jsonb = worker[w].output]
  /\ SetWorker(w, [worker[w] EXCEPT !.pc = "advance"])
  /\ UNCHANGED <<scenes, drafts, iterations, check_runs, nextId, queue, enqueued,
                 delivered, client, budget>>

\* task.output_jsonb = output; task.status = "completed"; db.commit()
Persist(w) ==
  /\ worker[w].pc = "persist"
  /\ TaskOf(w) \in DOMAIN tasks
  /\ tasks' = [tasks EXCEPT ![TaskOf(w)].status = "completed",
                            ![TaskOf(w)].output_jsonb = worker[w].output]
  /\ SetWorker(w, [worker[w] EXCEPT !.pc = "advance"])
  /\ UNCHANGED <<scenes, drafts, iterations, check_runs, nextId, queue, enqueued,
                 delivered, client, budget>>

\* ---------------------------------------------------- advance_state_machine
\* NextStep applying the attempt bound only when max_attempts is positive
NextStepPositiveLimit(kind, input, output) ==
  IF kind = RUN_CHECKS
    THEN IF Get(output, "all_passed", FALSE) THEN <<"task", COMMIT>>
         ELSE IF /\ Get(input, "max_attempts", DefaultMaxAttempts) > 0
                 /\ Get(input, "current_attempt", 0) >=
                      Get(input, "max_attempts", DefaultMaxAttempts)
           THEN <<"status", "failed">>
         ELSE <<"task", REVISE>>
  ELSE IF kind = COMMIT THEN <<"status", "passed">>
  ELSE IF kind \in DOMAIN NEXT_TASK THEN <<"task", NEXT_TASK[kind]>>
  ELSE <<"none">>

\* NextStep without the attempt bound: failed checks always lead to REVISE
NextStepUnbounded(kind, input, output) ==
  IF kind = RUN_CHECKS
    THEN IF Get(output, "all_passed", FALSE) THEN <<"task", COMMIT>>
         ELSE <<"task", REVISE>>
  ELSE IF kind = COMMIT THEN <<"status", "passed">>
  ELSE IF kind \in DOMAIN NEXT_TASK THEN <<"task", NEXT_TASK[kind]>>
  ELSE <<"none">>

\* NextStep treating COMMIT as a kind with no table entry and no status write
NextStepCommitSilent(kind, input, output) ==
  IF kind = RUN_CHECKS
    THEN IF Get(output, "all_passed", FALSE) THEN <<"task", COMMIT>>
         ELSE IF Get(input, "current_attempt", 0) >= Get(input, "max_attempts", DefaultMaxAttempts)
           THEN <<"status", "failed">>
         ELSE <<"task", REVISE>>
  ELSE IF kind \in DOMAIN NEXT_TASK THEN <<"task", NEXT_TASK[kind]>>
  ELSE <<"none">>

\* NextStep with the attempt bound tested before all_passed
NextStepAttemptsFirst(kind, input, output) ==
  IF kind = RUN_CHECKS
    THEN IF Get(input, "current_attempt", 0) >= Get(input, "max_attempts", DefaultMaxAttempts)
           THEN <<"status", "failed">>
         ELSE IF Get(output, "all_passed", FALSE) THEN <<"task", COMMIT>>
         ELSE <<"task", REVISE>>
  ELSE IF kind = COMMIT THEN <<"status", "passed">>
  ELSE IF kind \in DOMAIN NEXT_TASK THEN <<"task", NEXT_TASK[kind]>>
  ELSE <<"none">>

\* NextStep with > in place of >=
NextStepStrict(kind, input, output) ==
  IF kind = RUN_CHECKS
    THEN IF Get(output, "all_passed", FALSE) THEN <<"task", COMMIT>>
         ELSE IF Get(input, "current_attempt", 0) > Get(input, "max_attempts", DefaultMaxAttempts)
           THEN <<"status", "failed">>
         ELSE <<"task", REVISE>>
  ELSE IF kind = COMMIT THEN <<"status", "passed">>
  ELSE IF kind \in DOMAIN NEXT_TASK THEN <<"task", NEXT_TASK[kind]>>
  ELSE <<"none">>

\* what follows a completed task: <<"task", kind>>, <<"status", s>> or <<"none">>
NextStep(kind, input, output) ==
  IF kind = RUN_CHECKS
    THEN IF Get(output, "all_passed", FALSE) THEN <<"task", COMMIT>>
         ELSE IF Get(input, "current_attempt", 0) >= Get(input, "max_attempts", DefaultMaxAttempts)
           THEN <<"status", "failed">>
         ELSE <<"task", REVISE>>
  ELSE IF kind = COMMIT THEN <<"status", "passed">>
  ELSE IF kind \in DOMAIN NEXT_TASK THEN <<"task", NEXT_TASK[kind]>>
  ELSE <<"none">>

\* the keys of the completed task's output that are passed on
CarryKeys == {"draft_id", "plan", "facts", "findings"}

\* NextInput passing on every key of the output
NextInputCarryAll(next, input, output) ==
  LET base == ("scene_id" :> Get(input, "scene_id", None)) @@
              ("max_attempts" :> Get(input, "max_attempts", DefaultMaxAttempts)) @@
              ("current_attempt" :> Get(input, "current_attempt", 0))
      carried == [k \in DOMAIN output \ DOMAIN base |-> output[k]]
      merged == carried @@ base
  IN IF next = REVISE
       THEN [merged EXCEPT !["current_attempt"] = @ + 1]
       ELSE merged

\* NextInput with the increment for every kind
NextInputAlwaysIncrement(next, input, output) ==
  LET base == ("scene_id" :> Get(input, "scene_id", None)) @@
              ("max_attempts" :> Get(input, "max_attempts", DefaultMaxAttempts)) @@
              ("current_attempt" :> Get(input, "current_attempt", 0) + 1)
      carried == [k \in CarryKeys \cap DOMAIN output |-> output[k]]
  IN carried @@ base

\* NextInput without the increment for REVISE
NextInputSameAttempt(next, input, output) ==
  LET base == ("scene_id" :> Get(input, "scene_id", None)) @@
              ("max_attempts" :> Get(input, "max_attempts", DefaultMaxAttempts)) @@
              ("current_attempt" :> Get(input, "current_attempt", 0))
      carried == [k \in CarryKeys \cap DOMAIN output |-> output[k]]
  IN carried @@ base

NextInput(next, input, output) ==
  LET base == ("scene_id" :> Get(input, "scene_id", None)) @@
              ("max_attempts" :> Get(input, "max_attempts", DefaultMaxAttempts)) @@
              ("current_attempt" :> Get(input, "current_attempt", 0))
      carried == [k \in CarryKeys \cap DOMAIN output |-> output[k]]
      merged == carried @@ base
  IN IF next = REVISE
       THEN [merged EXCEPT !["current_attempt"] = @ + 1]
       ELSE merged

\* advance_state_machine up to the commit of the iteration status or of the
\* successor task; it reads the task row as the last commit left it
Advance(w) ==
  /\ worker[w].pc = "advance"
  /\ TaskOf(w) \in DOMAIN tasks
  /\ LET t == tasks[TaskOf(w)]
         step == NextStep(t.task_type, t.input_jsonb, t.output_jsonb)
     IN CASE step[1] = "status" ->
               /\ iterations' = update_iteration_status(t.iteration_id, step[2])
               /\ SetWorker(w, IdleWorker)
               /\ UNCHANGED <<tasks, nextId>>
          [] step[1] = "none" ->
               /\ SetWorker(w, IdleWorker)
               /\ UNCHANGED <<iterations, tasks, nextId>>
          [] step[1] = "task" ->
               /\ nextId.task <= budget.last_task
               /\ tasks' = tasks @@ (nextId.task :>
                    NewTask(t.iteration_id, step[2],
                            NextInput(step[2], t.input_jsonb, t.output_jsonb)))
               /\ nextId' = [nextId EXCEPT !.task = @ + 1]
               /\ SetWorker(w, [worker[w] EXCEPT !.pc = "enqueue", !.next = nextId.task])
               /\ UNCHANGED iterations
  /\ UNCHANGED <<scenes, drafts, check_runs, queue, enqueued, delivered, client, budget>>

\* queue.enqueue of the successor; process_task returns
EnqueueNext(w) ==
  /\ worker[w].pc = "enqueue"
  /\ queue' = Enqueue(queue, worker[w].next)
  /\ enqueued' = Enqueue(enqueued, worker[w].next)
  /\ SetWorker(w, IdleWorker)
  /\ UNCHANGED <<store, delivered, client, budget>>

\* anything inside the try block raises (the handler, a commit, create_task,
\* the enqueue call): the except branch runs
RaiseInTry(w) ==
  /\ worker[w].pc \in {"handler", "insert", "persist", "advance", "enqueue"}
  /\ FailTask(w)
  /\ UNCHANGED <<scenes, drafts, iterations, check_runs, nextId, queue, enqueued,
                 delivered, client, budget>>

\* the handler itself raises (a lookup, the generation call, create_draft)
HandlerRaises(w) ==
  /\ worker[w].pc \in {"handler", "insert"}
  /\ RaiseInTry(w)

\* the worker process dies (killed, job timeout): nothing more is written
Crash(w) ==
  /\ worker[w].pc # "idle"
  /\ SetWorker(w, IdleWorker)
  /\ UNCHANGED <<store, queue, enqueued, delivered, client, budget>>

\* ---------------------------------------------------------- specifications
StartSteps(C, S, M) ==
  \E c \in C :
    \/ \E s \in S, m \in M : StartBegin(c, s, m)
    \/ StartInsertIteration(c)
    \/ StartCreateTask(c)
    \/ StartSetRunning(c)
    \/ StartEnqueue(c)

ApiSteps(C, S) ==
  \E c \in C :
    \/ \E s \in S, d \in {None} \cup DOMAIN drafts \cup {nextId.draft} :
         RunPipeline(c, s, d)
    \/ \E s \in S : DraftBegin(c, s)
    \/ DraftInsert(c)

WorkerSteps(W) ==
  \E w \in W :
    \/ \E t \in DOMAIN queue : Claim(w, t)
    \/ RunHandler(w)
    \/ InsertDraft(w)
    \/ Persist(w)
    \/ Advance(w)
    \/ EnqueueNext(w)

FaultSteps(C, W) ==
  \/ \E c \in C : StartFails(c)
  \/ \E w \in W : RaiseInTry(w)
  \/ \E w \in W : Crash(w)
  \/ \E t \in delivered : Redeliver(t)

DeleteSteps ==
  \/ \E s \in SceneIds : DeleteScene(s)
  \/ DeleteProject

\* one iteration under faults: handlers and commits raise, workers die, the
\* queue delivers a job more than once, two workers run at the same time
Init == InitWith(Budget(1, MaxRedeliver, 0, 0, 0, MaxTasks))

Next ==
  \/ StartSteps({"c1"}, RequestSceneIds, MaxAttemptsValues)
  \/ WorkerSteps(Workers)
  \/ FaultSteps({"c1"}, Workers)

Spec == Init /\ [][Next]_vars

\* the steady flow of one iteration: every enqueued id is delivered once,
\* nothing raises or dies
InitSteady == InitWith(Budget(1, 0, 0, 0, 0, 3 * SteadyMaxAttempts + 5))

NextSteady ==
  \/ StartSteps({"c1"}, RequestSceneIds, SteadyAttemptsValues)
  \/ WorkerSteps(Workers)

SpecSteady == InitSteady /\ [][NextSteady]_vars

\* the steady flow with handlers that may raise: every id is still delivered
\* once, and nothing but a handler fails
NextRaise ==
  \/ NextSteady
  \/ \E w \in Workers : HandlerRaises(w)

SpecRaise == InitSteady /\ [][NextRaise]_vars

\* the same flow with room for one task more than the longest iteration has
InitRoomy == InitWith(Budget(1, 0, 0, 0, 0, 3 * SteadyMaxAttempts + 6))

SpecRoomy == InitRoomy /\ [][NextRaise]_vars

\* the same under the scheduling of the deployment: a client call runs to its
\* end, and a worker process keeps taking jobs and runs each to its end
Fairness ==
  /\ WF_vars(StartSteps({"c1"}, RequestSceneIds, SteadyAttemptsValues))
  /\ \A w \in Workers : WF_vars(WorkerSteps({w}))

SpecRaiseFair == SpecRaise /\ Fairness

SpecSteadyFair == SpecSteady /\ Fairness

\* one iteration where anything inside the try block may raise and a worker
\* may die, while the queue still delivers every id once
NextFaults ==
  \/ NextSteady
  \/ \E w \in Workers : RaiseInTry(w)
  \/ \E w \in Workers : Crash(w)

SpecFaults == InitSteady /\ [][NextFaults]_vars

\* the client calls with no worker running: one client calls start_iteration,
\* which may fail part-way, while another uses run_pipeline and the draft
\* endpoint, and scenes are deleted
InitApi == InitWith(Budget(MaxStarts, 0, MaxDeletes, MaxEndpointDrafts, MaxRunPipeline, 0))

NextApi ==
  \/ StartSteps({"c1"}, RequestSceneIds, {DefaultMaxAttempts})
  \/ StartFails("c1")
  \/ ApiSteps({"c2"}, RequestSceneIds)
  \/ DeleteSteps

SpecApi == InitApi /\ [][NextApi]_vars

\* the steady flow with one task of an unknown kind among the jobs
NextUnknown ==
  \/ NextSteady
  \/ \E i \in DOMAIN iterations : ForeignTask(i)

SpecUnknown == InitSteady /\ [][NextUnknown]_vars

\* start_iteration called by two clients at the same time, no worker running
InitStarts == InitWith(Budget(MaxStarts, 0, 0, 0, 0, 0))

NextStarts == StartSteps(Clients, SceneIds, {DefaultMaxAttempts})

SpecStarts == InitStarts /\ [][NextStarts]_vars

\* two iterations, run by two workers, and the draft endpoint creating drafts
\* at the same time, with scenes deleted under them
InitDrafts == InitWith(Budget(2, 0, MaxDeletes, MaxEndpointDrafts, 0, MaxDraftTasks))

NextDrafts ==
  \/ StartSteps({"c1"}, SceneIds, {0})
  \/ \E s \in SceneIds : DraftBegin("c2", s)
  \/ DraftInsert("c2")
  \/ WorkerSteps(Workers)
  \/ DeleteSteps

SpecDrafts == InitDrafts /\ [][NextDrafts]_vars

\* ------------------------------------------------------------- properties
TasksOf(i) == {t \in DOMAIN tasks : tasks[t].iteration_id = i}
KindTasks(i, kind) == {t \in TasksOf(i) : tasks[t].task_type = kind}

RECURSIVE Ordered(_)
Ordered(S) ==
  IF S = {} THEN <<>>
  ELSE LET m == CHOOSE x \in S : \A y \in S : x <= y
       IN <<m>> \o Ordered(S \ {m})

\* the kinds of an iteration's tasks in the order of their creation
KindsOf(i) == LET o == Ordered(TasksOf(i)) IN [k \in DOMAIN o |-> tasks[o[k]].task_type]
LastTask(i) == CHOOSE t \in TasksOf(i) : \A u \in TasksOf(i) : u <= t
FirstTask(i) == CHOOSE t \in TasksOf(i) : \A u \in TasksOf(i) : t <= u
MaxAttemptsOf(i) == tasks[FirstTask(i)].input_jsonb["max_attempts"]
IsPrefix(p, q) == Len(p) <= Len(q) /\ \A k \in DOMAIN p : p[k] = q[k]
Checked(i) == {t \in KindTasks(i, RUN_CHECKS) : tasks[t].status = "completed"}

\* nothing is in flight: no job queued, no worker or client call running
Quiescent ==
  /\ queue = EmptyDict
  /\ \A w \in Workers : worker[w].pc = "idle"
  /\ \A c \in Clients : client[c].pc = "idle"

NoTaskFailed(i) == \A t \in TasksOf(i) : tasks[t].status # "failed"
EveryCheckPassed(i) == \A t \in Checked(i) : tasks[t].output_jsonb["all_passed"]
EveryCheckFailed(i) == \A t \in Checked(i) : ~tasks[t].output_jsonb["all_passed"]
HappyPath == <<PLAN_SCENE, DRAFT_SCENE, EXTRACT_FACTS, RUN_CHECKS, COMMIT>>

\* C1: whatever max_attempts is, an iteration whose handlers all succeed and
\* whose checks all pass creates its tasks in the order PLAN, DRAFT, EXTRACT,
\* CHECK, COMMIT (never a REVISE), is "passed" only with exactly these five,
\* and is "passed" once nothing is left in flight.
C1_PassesInFiveTasks ==
  \A i \in DOMAIN iterations :
    (NoTaskFailed(i) /\ EveryCheckPassed(i)) =>
      /\ IsPrefix(KindsOf(i), HappyPath)
      /\ iterations[i].status = "passed" => KindsOf(i) = HappyPath
      /\ Quiescent => iterations[i].status = "passed"

C1_Witness ==
  \E i \in DOMAIN iterations :
    /\ iterations[i].status = "passed"
    /\ KindsOf(i) = HappyPath
    /\ MaxAttemptsOf(i) = SteadyMaxAttempts

\* what C2 says of a failed iteration with max_attempts = n
FailsAfter(i, n) ==
  /\ Cardinality(KindTasks(i, REVISE)) = n
  /\ Cardinality(KindTasks(i, RUN_CHECKS)) = n + 1
  /\ tasks[LastTask(i)].input_jsonb["current_attempt"] = n

AllChecksFail(i) == TasksOf(i) # {} /\ NoTaskFailed(i) /\ EveryCheckFailed(i)

\* C2 as claimed: for every max_attempts = N, an iteration whose checks all
\* fail is "failed" after exactly N REVISE and N+1 CHECK tasks, the last task
\* carrying current_attempt = N.
C2_FailsAfterN ==
  \A i \in DOMAIN iterations :
    (AllChecksFail(i) /\ iterations[i].status = "failed") =>
      FailsAfter(i, MaxAttemptsOf(i))

\* C2 amended: the same for N >= 0; a negative N behaves as 0.  While the
\* iteration runs it never has more REVISE or CHECK tasks than that, and it
\* is "failed" once nothing is left in flight.
C2_FailsAfterNonNegativeN ==
  \A i \in DOMAIN iterations :
    AllChecksFail(i) =>
      LET n == IF MaxAttemptsOf(i) < 0 THEN 0 ELSE MaxAttemptsOf(i)
      IN /\ Cardinality(KindTasks(i, REVISE)) <= n
         /\ Cardinality(KindTasks(i, RUN_CHECKS)) <= n + 1
         /\ iterations[i].status = "failed" => FailsAfter(i, n)
         /\ Quiescent => iterations[i].status = "failed"

C2_Witness ==
  \E i \in DOMAIN iterations :
    /\ AllChecksFail(i)
    /\ iterations[i].status = "failed"
    /\ MaxAttemptsOf(i) = SteadyMaxAttempts
    /\ Cardinality(KindTasks(i, REVISE)) = SteadyMaxAttempts

\* C3: the step of advance_state_machine after a RUN_CHECKS task creates one
\* COMMIT task if the output has all_passed; else, if current_attempt >=
\* max_attempts, creates no task and sets the iteration "failed"; else creates
\* one REVISE task with current_attempt one greater.
C3_CheckBranch ==
  [][\A w \in Workers :
       (/\ worker[w].pc = "advance"
        /\ worker'[w] # worker[w]
        /\ tasks[TaskOf(w)].task_type = RUN_CHECKS) =>
         LET t == tasks[TaskOf(w)]
             created == DOMAIN tasks' \ DOMAIN tasks
             attempt == t.input_jsonb["current_attempt"]
         IN IF t.output_jsonb["all_passed"]
              THEN /\ \E n \in created :
                        /\ created = {n}
                        /\ tasks'[n].task_type = COMMIT
                        /\ tasks'[n].iteration_id = t.iteration_id
                   /\ iterations' = iterations
            ELSE IF attempt >= t.input_jsonb["max_attempts"]
              THEN /\ created = {}
                   /\ iterations'[t.iteration_id].status = "failed"
            ELSE /\ \E n \in created :
                      /\ created = {n}
                      /\ tasks'[n].task_type = REVISE
                      /\ tasks'[n].iteration_id = t.iteration_id
                      /\ tasks'[n].input_jsonb["current_attempt"] = attempt + 1
                 /\ iterations' = iterations]_vars

C3_Witness ==
  \E i \in DOMAIN iterations :
    /\ iterations[i].status = "failed"
    /\ \E t \in KindTasks(i, REVISE) : tasks[t].input_jsonb["current_attempt"] = 1

\* C4: a worker that was handed a task whose status was already "completed"
\* (a duplicate delivery) takes no step that changes the drafts.
C4_CompletedTaskNotRerun ==
  [][\A w \in Workers :
       (worker[w].prior = "completed" /\ worker'[w] # worker[w]) =>
         drafts' = drafts]_vars

DraftsOf(s) == {d \in DOMAIN drafts : drafts[d].scene_id = s}

\* C5: the drafts of every scene carry the versions 1..k, each once, and a
\* draft created later (a larger id) has the larger version.
C5_DraftVersionsDense ==
  \A s \in SceneIds :
    /\ {drafts[d].version : d \in DraftsOf(s)} = 1..Cardinality(DraftsOf(s))
    /\ \A d, e \in DraftsOf(s) : d < e => drafts[d].version < drafts[e].version

\* two creators read the same largest version of a scene; one insert was
\* rejected, and the scene has gone on to a second version
C5_Witness ==
  \E s \in SceneIds :
    /\ Cardinality(DraftsOf(s)) >= 2
    /\ \E t \in DOMAIN tasks :
         /\ tasks[t].task_type = DRAFT_SCENE
         /\ tasks[t].status = "failed"
         /\ tasks[t].input_jsonb["scene_id"] = s

\* C6: no step removes a draft or changes a field of one.
C6_DraftsAppendOnly ==
  [][\A d \in DOMAIN drafts : d \in DOMAIN drafts' /\ drafts'[d] = drafts[d]]_vars

\* the start_iteration call that created iteration i has not returned
UnderConstruction(i) ==
  \E c \in Clients : client[c].pc # "idle" /\ client[c].iteration = i

\* C7: outside a start_iteration call in progress, every iteration has its
\* PLAN_SCENE task, and a "running" iteration has had that task enqueued.
C7_StartIsAtomic ==
  \A i \in DOMAIN iterations :
    ~UnderConstruction(i) =>
      /\ KindTasks(i, PLAN_SCENE) # {}
      /\ iterations[i].status = "running" =>
           \E t \in KindTasks(i, PLAN_SCENE) : t \in DOMAIN enqueued

\* a run_pipeline call by client c is answered in this step
RunPipelineBy(c) ==
  /\ budget'.run_pipeline < budget.run_pipeline
  /\ client'[c] # client[c]

\* C8: run_pipeline for an existing scene, with no draft id or with a draft of
\* that scene, answers with the id of a new "running" iteration that has one
\* pending PLAN_SCENE task, enqueued once.
C8_RunPipelineStarts ==
  [][\A c \in Clients :
       LET r == client'[c].reply
       IN (/\ RunPipelineBy(c)
           /\ get_scene(r.scene)
           /\ r.draft # None => (get_draft(r.draft) /\ drafts[r.draft].scene_id = r.scene)) =>
            /\ r.code = "ok"
            /\ DOMAIN iterations' \ DOMAIN iterations = {r.iteration}
            /\ iterations'[r.iteration].status = "running"
            /\ \E t \in DOMAIN tasks' \ DOMAIN tasks :
                 /\ DOMAIN tasks' \ DOMAIN tasks = {t}
                 /\ tasks'[t].iteration_id = r.iteration
                 /\ tasks'[t].task_type = PLAN_SCENE
                 /\ tasks'[t].status = "pending"
                 /\ tasks'[t].input_jsonb["scene_id"] = r.scene
                 /\ tasks'[t].input_jsonb["current_attempt"] = 0
                 /\ enqueued' = Enqueue(enqueued, t)]_vars

\* C9: run_pipeline for an existing scene with the id of a draft of another
\* scene answers 400 and leaves iterations, tasks and the queue as they were.
C9_ForeignDraftRejected ==
  [][\A c \in Clients :
       LET r == client'[c].reply
       IN (/\ RunPipelineBy(c)
           /\ get_scene(r.scene)
           /\ get_draft(r.draft)
           /\ drafts[r.draft].scene_id # r.scene) =>
            /\ r.code = "invalid_argument"
            /\ UNCHANGED <<iterations, tasks, queue, enqueued>>]_vars

C9_Witness ==
  \E c \in Clients :
    /\ client[c].reply.op = "run_pipeline"
    /\ client[c].reply.code = "invalid_argument"
    /\ get_draft(client[c].reply.draft)
    /\ drafts[client[c].reply.draft].scene_id # client[c].reply.scene

\* C10: a start (start_iteration, or run_pipeline in front of it) that names a
\* scene that does not exist goes no further than the lookup: it answers
\* not-found, and iterations, tasks and the queue stay as they were.
C10_MissingSceneNotFound ==
  [][\A c \in Clients :
       (client[c].pc = "idle" /\ client'[c] # client[c]) =>
         LET r == client'[c].reply
         IN /\ client'[c].pc = "insert_iteration" => client'[c].scene \in scenes
            /\ (/\ client'[c].pc = "idle"
                /\ r.op \in {"start_iteration", "run_pipeline"}
                /\ r.scene \notin scenes) =>
                 /\ r.code = "not_found"
                 /\ UNCHANGED <<iterations, tasks, queue, enqueued>>]_vars

C10_Witness ==
  \E c, e \in Clients :
    /\ client[c].reply.op = "start_iteration"
    /\ client[c].reply.code = "not_found"
    /\ client[e].reply.op = "run_pipeline"
    /\ client[e].reply.code = "not_found"
    /\ client[e].reply.scene \notin scenes

HasPredecessor(t) == \E p \in TasksOf(tasks[t].iteration_id) : p < t
Predecessor(t) ==
  LET E == {p \in TasksOf(tasks[t].iteration_id) : p < t}
  IN CHOOSE p \in E : \A q \in E : q <= p

\* C12: whenever a successor task exists (queued or not), its predecessor is
\* "completed" and holds the output of its handler.
C12_PredecessorPersisted ==
  \A t \in DOMAIN tasks :
    HasPredecessor(t) =>
      /\ tasks[Predecessor(t)].status = "completed"
      /\ tasks[Predecessor(t)].output_jsonb # EmptyDict
      /\ "error" \notin DOMAIN tasks[Predecessor(t)].output_jsonb

IterationIds == 1..MaxStarts

\* C13: an iteration that is "running" is "passed" or "failed" some time later.
C13_EveryIterationEnds ==
  \A i \in IterationIds :
    (i \in DOMAIN iterations /\ iterations[i].status = "running")
      ~> (i \in DOMAIN iterations /\ iterations[i].status \in {"passed", "failed"})

\* C14: no step changes the status of an iteration that is "passed" or
\* "failed", or removes the iteration.
C14_TerminalStatusStays ==
  [][\A i \in DOMAIN iterations :
       iterations[i].status \in {"passed", "failed"} =>
         /\ i \in DOMAIN iterations'
         /\ iterations'[i].status = iterations[i].status]_vars

ActiveTasks(i) == {t \in TasksOf(i) : tasks[t].status \in {"pending", "running"}}

\* C15: with every id dispatched once, an iteration never has two tasks that
\* are "pending" or "running".
C15_OneActiveTask ==
  \A i \in DOMAIN iterations : Cardinality(ActiveTasks(i)) <= 1

\* the check task is running and the three tasks before it are completed
C15_Witness ==
  \E i \in DOMAIN iterations, t \in DOMAIN tasks :
    /\ ActiveTasks(i) = {t}
    /\ tasks[t].task_type = RUN_CHECKS
    /\ tasks[t].status = "running"
    /\ Cardinality(TasksOf(i)) >= 4

\* worker w is inside a handler call
InHandler(w) ==
  /\ worker[w].pc \in {"handler", "insert"}
  /\ TaskOf(w) \in DOMAIN tasks

\* C16: two workers are never inside handler calls for tasks of the same
\* iteration at the same time.
C16_NoConcurrentHandlers ==
  \A w, v \in Workers :
    (w # v /\ InHandler(w) /\ InHandler(v)) =>
      tasks[TaskOf(w)].iteration_id # tasks[TaskOf(v)].iteration_id

\* this step is worker w's advance_state_machine creating a successor task
CreatesSuccessor(w) ==
  /\ worker[w].pc = "advance"
  /\ worker'[w].pc = "enqueue"

\* C17: a task created by advance_state_machine has the current_attempt of the
\* completed task, plus one exactly when it is a REVISE; and no step (the
\* dispatcher's attempts + 1 among them) changes the input of an existing task.
C17_AttemptCounter ==
  [][/\ \A w \in Workers :
          CreatesSuccessor(w) =>
            LET new == tasks'[worker'[w].next]
                done == tasks[TaskOf(w)]
            IN new.input_jsonb["current_attempt"] =
                 done.input_jsonb["current_attempt"] +
                   (IF new.task_type = REVISE THEN 1 ELSE 0)
     /\ \A t \in DOMAIN tasks \cap DOMAIN tasks' :
          tasks'[t].input_jsonb = tasks[t].input_jsonb]_vars

\* a COMMIT after two revisions, approved by a check task of the same attempt
C17_Witness ==
  \E t \in DOMAIN tasks :
    /\ tasks[t].task_type = COMMIT
    /\ tasks[t].input_jsonb["current_attempt"] = SteadyMaxAttempts
    /\ tasks[t].attempts = 1
    /\ HasPredecessor(t)
    /\ tasks[Predecessor(t)].task_type = RUN_CHECKS
    /\ tasks[Predecessor(t)].input_jsonb["current_attempt"] = SteadyMaxAttempts

\* C18: the input of a successor has the keys scene_id, max_attempts and
\* current_attempt, with scene_id and max_attempts as in the completed task's
\* input, and of the other keys exactly those of draft_id, plan, facts,
\* findings that the completed task's output has, with the output's values.
C18_CarriedKeys ==
  [][\A w \in Workers :
       CreatesSuccessor(w) =>
         LET new == tasks'[worker'[w].next].input_jsonb
             done == tasks[TaskOf(w)]
             carried == {"draft_id", "plan", "facts", "findings"} \cap
                          DOMAIN done.output_jsonb
         IN /\ DOMAIN new = {"scene_id", "max_attempts", "current_attempt"} \cup carried
            /\ new["scene_id"] = done.input_jsonb["scene_id"]
            /\ new["max_attempts"] = done.input_jsonb["max_attempts"]
            /\ \A k \in carried : new[k] = done.output_jsonb[k]]_vars

\* the successors of an extract task (whose output has a summary) and of a
\* check task (whose output has all_passed and check_count) exist
C18_Witness ==
  \E t, u \in DOMAIN tasks :
    /\ tasks[t].task_type = RUN_CHECKS
    /\ DOMAIN tasks[t].input_jsonb =
         {"scene_id", "max_attempts", "current_attempt", "draft_id", "facts"}
    /\ HasPredecessor(t)
    /\ "summary" \in DOMAIN tasks[Predecessor(t)].output_jsonb
    /\ tasks[u].task_type = REVISE
    /\ DOMAIN tasks[u].input_jsonb =
         {"scene_id", "max_attempts", "current_attempt", "draft_id", "findings"}
    /\ HasPredecessor(u)
    /\ "check_count" \in DOMAIN tasks[Predecessor(u)].output_jsonb

\* the kind that follows a kind without a branch
FollowingKind(kind) ==
  CASE kind = PLAN_SCENE -> DRAFT_SCENE
    [] kind = DRAFT_SCENE -> EXTRACT_FACTS
    [] kind = EXTRACT_FACTS -> RUN_CHECKS
    [] kind = REVISE -> EXTRACT_FACTS

Unbranched == {PLAN_SCENE, DRAFT_SCENE, EXTRACT_FACTS, REVISE}

\* process_task has returned for task t, which is completed
Returned(t) ==
  /\ tasks[t].status = "completed"
  /\ \A w \in Workers : TaskOf(w) # t

\* C19: advance_state_machine for a completed PLAN, DRAFT, EXTRACT or REVISE
\* task creates one pending task of the following kind in the same iteration
\* and leaves the iteration as it is; once process_task has returned, the task
\* has that one successor, and the successor was enqueued once.
C19_OneSuccessor ==
  /\ [][\A w \in Workers :
          (/\ worker[w].pc = "advance"
           /\ worker'[w] # worker[w]
           /\ tasks[TaskOf(w)].task_type \in Unbranched) =>
             LET done == tasks[TaskOf(w)]
                 n == worker'[w].next
             IN /\ worker'[w].pc = "enqueue"
                /\ DOMAIN tasks' = DOMAIN tasks \cup {n}
                /\ n \notin DOMAIN tasks
                /\ tasks'[n].task_type = FollowingKind(done.task_type)
                /\ tasks'[n].iteration_id = done.iteration_id
                /\ tasks'[n].status = "pending"
                /\ iterations' = iterations]_vars
  /\ [](\A t \in DOMAIN tasks :
          (tasks[t].task_type \in Unbranched /\ Returned(t)) =>
            \E u \in DOMAIN tasks :
              /\ HasPredecessor(u)
              /\ Predecessor(u) = t
              /\ tasks[u].task_type = FollowingKind(tasks[t].task_type)
              /\ u \in DOMAIN enqueued
              /\ enqueued[u] = 1)

\* all four kinds have been completed and followed
C19_Witness ==
  \A kind \in Unbranched :
    \E t \in DOMAIN tasks :
      /\ tasks[t].task_type = kind
      /\ Returned(t)
      /\ \E u \in DOMAIN tasks : HasPredecessor(u) /\ Predecessor(u) = t

\* C20: advance_state_machine for a completed COMMIT task sets the iteration
\* to "passed", creates no task and enqueues nothing, and process_task returns.
C20_CommitEnds ==
  [][\A w \in Workers :
       (/\ worker[w].pc = "advance"
        /\ worker'[w] # worker[w]
        /\ tasks[TaskOf(w)].task_type = COMMIT) =>
          /\ iterations'[tasks[TaskOf(w)].iteration_id].status = "passed"
          /\ tasks' = tasks
          /\ queue' = queue
          /\ enqueued' = enqueued
          /\ worker'[w].pc = "idle"]_vars

\* a COMMIT task has been completed and advanced, after one revision
C20_Witness ==
  \E t \in DOMAIN tasks :
    /\ tasks[t].task_type = COMMIT
    /\ Returned(t)
    /\ tasks[t].input_jsonb["current_attempt"] = 1
    /\ iterations[tasks[t].iteration_id].status = "passed"
    /\ LastTask(tasks[t].iteration_id) = t
    /\ queue = EmptyDict

\* C21: no step changes the status or the output of a task that is
\* "completed", or removes the task.
C21_CompletedTaskFrozen ==
  [][\A t \in DOMAIN tasks :
       tasks[t].status = "completed" =>
         /\ t \in DOMAIN tasks'
         /\ tasks'[t].status = "completed"
         /\ tasks'[t].output_jsonb = tasks[t].output_jsonb]_vars

\* C22: of two iterations of the same scene, the one created later (the larger
\* id) has the larger iteration_no; in particular no two share one.
C22_IterationNoMonotonic ==
  \A i, j \in DOMAIN iterations :
    (i < j /\ iterations[i].scene_id = iterations[j].scene_id) =>
      iterations[i].iteration_no < iterations[j].iteration_no

\* this step is the dispatch of task t: process_task has taken it
Dispatched(t) ==
  /\ t \in DOMAIN tasks
  /\ t \in DOMAIN tasks'
  /\ tasks'[t].attempts = tasks[t].attempts + 1

SixKinds == {"PLAN_SCENE", "DRAFT_SCENE", "EXTRACT_FACTS", "RUN_CHECKS", "REVISE", "COMMIT"}

\* C23: the dispatch of a task whose kind is none of the six starts no handler
\* (the worker is free again at once: the call has failed), creates no task,
\* enqueues nothing and leaves iterations, drafts and check runs as they were;
\* and no worker is ever executing a task of such a kind.
C23_UnknownKindRejected ==
  /\ [][\A t \in DOMAIN tasks :
          (Dispatched(t) /\ tasks[t].task_type \notin SixKinds) =>
            /\ worker' = worker
            /\ DOMAIN tasks' = DOMAIN tasks
            /\ enqueued' = enqueued
            /\ UNCHANGED <<iterations, drafts, check_runs>>]_vars
  /\ [](\A w \in Workers :
          TaskOf(w) \in DOMAIN tasks => tasks[TaskOf(w)].task_type \in SixKinds)

\* a task of an unknown kind has been dispatched while the iteration ran on
C23_Witness ==
  \E t \in DOMAIN tasks :
    /\ tasks[t].task_type \notin SixKinds
    /\ tasks[t].attempts = 1
    /\ t \notin DOMAIN queue
    /\ iterations[tasks[t].iteration_id].status = "passed"

\* C24: a step that takes from the queue an id with no task row (process_task
\* on a task that is not in the store) changes no task, iteration, draft or
\* check run, enqueues nothing and leaves every worker free as it was.
C24_MissingTaskNotFound ==
  [][\A t \in DOMAIN queue :
       (t \notin DOMAIN tasks /\ queue' = Dequeue(queue, t)) =>
         /\ UNCHANGED <<tasks, iterations, drafts, check_runs, scenes>>
         /\ enqueued' = enqueued
         /\ worker' = worker]_vars

\* the id of a deleted task has been dispatched while other tasks exist
C24_Witness ==
  \E t \in delivered :
    /\ t \notin DOMAIN tasks
    /\ t \notin DOMAIN queue
    /\ tasks # EmptyDict
    /\ \A w \in Workers : TaskOf(w) # t

\* the check runs that reference task t's iteration and the draft in its input
CheckRunsOf(t) ==
  {r \in DOMAIN check_runs :
     /\ check_runs[r].iteration_id = tasks[t].iteration_id
     /\ check_runs[r].draft_id = Get(tasks[t].input_jsonb, "draft_id", None)}

CheckKinds == {"continuity", "style"}

\* C25: the handler step of a CHECK task that succeeds adds exactly one check
\* run per check kind (one continuity, one style), each referencing the task's
\* iteration and the checked draft, and changes no older check run; its output
\* has check_count equal to the number added and all_passed true exactly when
\* every added check run passed.  Once the task is completed, its stored
\* output and the check runs of its iteration and draft agree in the same way.
C25_OneCheckRunPerKind ==
  /\ [][\A w \in Workers :
          (/\ worker[w].pc = "handler"
           /\ TaskOf(w) \in DOMAIN tasks
           /\ tasks[TaskOf(w)].task_type = RUN_CHECKS
           /\ worker'[w].pc = "persist") =>
            LET added == DOMAIN check_runs' \ DOMAIN check_runs
                out == worker'[w].output
            IN /\ \A r \in DOMAIN check_runs : check_runs'[r] = check_runs[r]
               /\ \A k \in CheckKinds :
                    Cardinality({r \in added : check_runs'[r].check_type = k}) = 1
               /\ \A r \in added :
                    /\ check_runs'[r].check_type \in CheckKinds
                    /\ check_runs'[r].iteration_id = tasks[TaskOf(w)].iteration_id
                    /\ check_runs'[r].draft_id = Get(InputOf(w), "draft_id", None)
               /\ out["check_count"] = Cardinality(added)
               /\ out["all_passed"] = (\A r \in added : check_runs'[r].passed)]_vars
  /\ [](\A t \in DOMAIN tasks :
          (tasks[t].task_type = RUN_CHECKS /\ tasks[t].status = "completed") =>
            /\ \A k \in CheckKinds :
                 Cardinality({r \in CheckRunsOf(t) : check_runs[r].check_type = k}) = 1
            /\ tasks[t].output_jsonb["check_count"] = Cardinality(CheckRunsOf(t))
            /\ tasks[t].output_jsonb["all_passed"] =
                 (\A r \in CheckRunsOf(t) : check_runs[r].passed))

\* a completed CHECK task whose continuity check passed and style check failed,
\* and a later one of the same iteration whose checks both passed
C25_Witness ==
  \E t, u \in DOMAIN tasks :
    /\ t < u
    /\ tasks[t].iteration_id = tasks[u].iteration_id
    /\ tasks[t].task_type = RUN_CHECKS /\ tasks[t].status = "completed"
    /\ tasks[u].task_type = RUN_CHECKS /\ tasks[u].status = "completed"
    /\ ~tasks[t].output_jsonb["all_passed"]
    /\ tasks[u].output_jsonb["all_passed"]
    /\ \E r, q \in CheckRunsOf(t) :
         /\ check_runs[r].check_type = "continuity" /\ check_runs[r].passed
         /\ check_runs[q].check_type = "style" /\ ~check_runs[q].passed
    /\ Cardinality(CheckRunsOf(u)) = 2

\* the kinds that may directly follow a kind in an iteration's task sequence
MayFollow(kind) ==
  CASE kind = "PLAN_SCENE" -> {"DRAFT_SCENE"}
    [] kind = "DRAFT_SCENE" -> {"EXTRACT_FACTS"}
    [] kind = "EXTRACT_FACTS" -> {"RUN_CHECKS"}
    [] kind = "RUN_CHECKS" -> {"REVISE", "COMMIT"}
    [] kind = "REVISE" -> {"EXTRACT_FACTS"}
    [] OTHER -> {}

\* C26: with every enqueued id dispatched once (handlers may raise), the kinds
\* of an iteration's tasks in creation order are a prefix of PLAN, DRAFT,
\* EXTRACT, CHECK, (REVISE, EXTRACT, CHECK)*, COMMIT: the first is PLAN, each
\* later one is a kind that may follow the one before it (REVISE and COMMIT
\* only after a CHECK), and nothing follows a COMMIT.
C26_KindSequence ==
  \A i \in DOMAIN iterations :
    LET ks == KindsOf(i)
    IN \A k \in DOMAIN ks :
         IF k = 1 THEN ks[k] = "PLAN_SCENE" ELSE ks[k] \in MayFollow(ks[k - 1])

\* an iteration that went through two revision rounds and then committed
C26_Witness ==
  \E i \in DOMAIN iterations :
    KindsOf(i) = <<"PLAN_SCENE", "DRAFT_SCENE", "EXTRACT_FACTS", "RUN_CHECKS",
                   "REVISE", "EXTRACT_FACTS", "RUN_CHECKS",
                   "REVISE", "EXTRACT_FACTS", "RUN_CHECKS", "COMMIT">>

\* worker w has completed a task of iteration i of the given kind and is in
\* advance_state_machine for it
Advancing(w, i, kind) ==
  /\ worker[w].pc = "advance"
  /\ TaskOf(w) \in DOMAIN tasks
  /\ tasks[TaskOf(w)].iteration_id = i
  /\ tasks[TaskOf(w)].task_type = kind

\* C27: an iteration is created "pending" and its status changes only from
\* "pending" to "running", from "running" to "passed" in the step that follows
\* a completed COMMIT task, and from "running" to "failed" in the step that
\* follows a completed CHECK task with all_passed false and current_attempt >=
\* max_attempts; in particular never because a handler raised.
C27_StatusTransitions ==
  [][/\ \A i \in DOMAIN iterations' \ DOMAIN iterations :
          iterations'[i].status = "pending"
     /\ \A i \in DOMAIN iterations \cap DOMAIN iterations' :
          iterations'[i].status # iterations[i].status =>
            \/ /\ iterations[i].status = "pending"
               /\ iterations'[i].status = "running"
            \/ /\ iterations[i].status = "running"
               /\ iterations'[i].status = "passed"
               /\ \E w \in Workers : Advancing(w, i, "COMMIT")
            \/ /\ iterations[i].status = "running"
               /\ iterations'[i].status = "failed"
               /\ \E w \in Workers :
                    /\ Advancing(w, i, "RUN_CHECKS")
                    /\ ~Get(tasks[TaskOf(w)].output_jsonb, "all_passed", FALSE)
                    /\ Get(InputOf(w), "current_attempt", 0) >=
                         Get(InputOf(w), "max_attempts", DefaultMaxAttempts)]_vars

\* the DRAFT and REVISE tasks of task t's iteration created before t
Writers(t) ==
  {m \in TasksOf(tasks[t].iteration_id) :
     m < t /\ tasks[m].task_type \in {"DRAFT_SCENE", "REVISE"}}

\* the CHECK tasks of task t's iteration created before t
Checkers(t) ==
  {c \in TasksOf(tasks[t].iteration_id) : c < t /\ tasks[c].task_type = "RUN_CHECKS"}

Latest(S) == CHOOSE m \in S : \A n \in S : n <= m

\* C28: with every enqueued id dispatched once, the draft_id in a COMMIT task's
\* input is the draft the approving CHECK task (the last CHECK before it, whose
\* output has all_passed true) had in its input and that the check runs of that
\* CHECK reference, and it is the draft that the most recent DRAFT or REVISE
\* task of the iteration created: the id in that task's output, a draft of the
\* iteration's scene whose version is the number of drafts the iteration has
\* written.  (One iteration runs, each CHECK adds one check run per kind, so
\* the check runs of the k-th CHECK are those with ids above 2 * (k - 1).)
C28_CommitDraft ==
  \A t \in DOMAIN tasks :
    tasks[t].task_type = "COMMIT" =>
      LET d == Get(tasks[t].input_jsonb, "draft_id", None)
          c == Latest(Checkers(t))
          m == Latest(Writers(t))
          runs == {r \in DOMAIN check_runs :
                     /\ check_runs[r].iteration_id = tasks[t].iteration_id
                     /\ r > Cardinality(CheckKinds) * (Cardinality(Checkers(t)) - 1)}
      IN /\ Checkers(t) # {} /\ Writers(t) # {}
         /\ tasks[c].output_jsonb["all_passed"]
         /\ Get(tasks[c].input_jsonb, "draft_id", None) = d
         /\ runs # {}
         /\ \A r \in runs : check_runs[r].draft_id = d
         /\ tasks[m].output_jsonb["draft_id"] = d
         /\ d \in DOMAIN drafts
         /\ drafts[d].scene_id = iterations[tasks[t].iteration_id].scene_id
         /\ drafts[d].version = Cardinality(Writers(t))

\* a COMMIT task for the draft of the second REVISE, after the first draft and
\* the first revision were rejected
C28_Witness ==
  \E t \in DOMAIN tasks :
    /\ tasks[t].task_type = "COMMIT"
    /\ tasks[t].status = "completed"
    /\ Cardinality(Writers(t)) = 3
    /\ drafts[tasks[t].input_jsonb["draft_id"]].version = 3
    /\ drafts[tasks[t].input_jsonb["draft_id"]].text = "revised"

\* C29: with every enqueued id dispatched once, whatever the checks report and
\* whichever handlers raise, an iteration started with max_attempts = N >= 0
\* has at most 3N + 5 tasks, at most N of them REVISE, and no task with
\* current_attempt greater than N.
C29_TaskBound ==
  \A i \in DOMAIN iterations :
    (TasksOf(i) # {} /\ MaxAttemptsOf(i) >= 0) =>
      /\ Cardinality(TasksOf(i)) <= 3 * MaxAttemptsOf(i) + 5
      /\ Cardinality(KindTasks(i, "REVISE")) <= MaxAttemptsOf(i)
      /\ \A t \in TasksOf(i) :
           Get(tasks[t].input_jsonb, "current_attempt", 0) <= MaxAttemptsOf(i)

\* an iteration with max_attempts 1 that used all of its 3 * 1 + 5 tasks, and
\* the model has room for more
C29_Witness ==
  \E i \in DOMAIN iterations :
    /\ TasksOf(i) # {}
    /\ MaxAttemptsOf(i) = 1
    /\ Cardinality(TasksOf(i)) = 8
    /\ Cardinality(KindTasks(i, "REVISE")) = 1
    /\ nextId.task <= budget.last_task
    /\ iterations[i].status = "passed"

\* the first CHECK task of iteration i
FirstCheck(i) ==
  CHOOSE t \in KindTasks(i, "RUN_CHECKS") : \A u \in KindTasks(i, "RUN_CHECKS") : t <= u

\* process_task has returned for the first CHECK task of iteration i
FirstCheckDone(i) == KindTasks(i, "RUN_CHECKS") # {} /\ Returned(FirstCheck(i))

\* C30: start_iteration accepts max_attempts <= 0, negative values included,
\* and for such an iteration: there is never a REVISE task; once the first
\* CHECK has returned with all_passed false the iteration is "failed" with
\* exactly 4 tasks, and it is "failed" only so; once the first CHECK has
\* returned with all_passed true a COMMIT task exists, and the iteration is
\* "passed" when nothing is left in flight.
C30_NonPositiveMaxAttempts ==
  \A i \in DOMAIN iterations :
    (TasksOf(i) # {} /\ MaxAttemptsOf(i) <= 0) =>
      /\ KindTasks(i, "REVISE") = {}
      /\ iterations[i].status = "failed" =>
           /\ Cardinality(TasksOf(i)) = 4
           /\ FirstCheckDone(i)
           /\ ~tasks[FirstCheck(i)].output_jsonb["all_passed"]
      /\ FirstCheckDone(i) =>
           IF tasks[FirstCheck(i)].output_jsonb["all_passed"]
             THEN /\ Cardinality(KindTasks(i, "COMMIT")) = 1
                  /\ iterations[i].status # "failed"
                  /\ Quiescent => /\ iterations[i].status = "passed"
                                  /\ Cardinality(TasksOf(i)) = 5
             ELSE /\ iterations[i].status = "failed"
                  /\ Cardinality(TasksOf(i)) = 4

\* an iteration started with a negative max_attempts that failed on its first
\* CHECK with four tasks
C30_Witness ==
  \E i \in DOMAIN iterations :
    /\ TasksOf(i) # {}
    /\ MaxAttemptsOf(i) < 0
    /\ iterations[i].status = "failed"
    /\ Cardinality(TasksOf(i)) = 4
    /\ Quiescent
====
